---- MODULE Spec2Model ----
(***************************************************************************)
(* Composer manager: lock file synthesis (updateArtifacts) and manifest    *)
(* extraction (extractPackageFile / parseRepositories).                    *)
(*                                                                         *)
(* Strings are modelled as sequences: paths and commands as sequences of   *)
(* tokens, error messages as sequences of fragments, registry URLs as      *)
(* sequences of characters.                                                *)
(***************************************************************************)
EXTENDS Integers, Sequences, FiniteSets, TLC

\* ------------------------------------------------------------------ bounds
\* at most this many paths are reported as changed by the working-tree status
MaxChanged == 3
\* at most this many entries in the manifest's repositories block
MaxRepos == 2

\* ---------------------------------------------------------- string helpers
StartsWith(s, prefix) ==
    /\ Len(prefix) <= Len(s)
    /\ SubSeq(s, 1, Len(prefix)) = prefix

EndsWith(s, suffix) ==
    /\ Len(suffix) <= Len(s)
    /\ SubSeq(s, Len(s) - Len(suffix) + 1, Len(s)) = suffix

Includes(s, frag) == \E i \in 1..Len(s) : s[i] = frag

RECURSIVE LastIndexOf(_, _)
LastIndexOf(s, tok) ==
    IF Len(s) = 0 THEN 0
    ELSE IF s[Len(s)] = tok THEN Len(s)
    ELSE LastIndexOf(SubSeq(s, 1, Len(s) - 1), tok)

\* =========================================================================
\*                       SYNTHESIS: updateArtifacts
\* =========================================================================

\* error-message fragments
TEMPORARY_ERROR == <<"temporary-error">>
SYSTEM_INSUFFICIENT_DISK_SPACE == <<"disk-space">>
UnresolvableText == "Your requirements could not be resolved to an installable set of packages."
DiskFullText == "write error (disk full?)"

\* messages a failing collaborator may raise; <<>> is an error whose message
\* is empty or missing
Messages ==
    { TEMPORARY_ERROR,
      <<UnresolvableText>>,
      <<DiskFullText>>,
      <<"Problem 1", DiskFullText>>,
      <<UnresolvableText, DiskFullText>>,
      <<"temporary-error", "again">>,
      <<"exit code 1">>,
      <<>> }

\* message of the SyntaxError JSON.parse throws
JsonSyntaxMessage == <<"Unexpected token in JSON">>

\* manifests the run may be asked to update
PackageFileNames ==
    { <<"composer", ".json">>,
      <<"backend", "/", "composer", ".json">> }

\* packageFileName.replace(/\.json$/, '.lock')
LockFileNameOf(pf) ==
    IF Len(pf) > 0 /\ pf[Len(pf)] = ".json"
    THEN SubSeq(pf, 1, Len(pf) - 1) \o <<".lock">>
    ELSE pf

\* the final path segment replaced, the directory kept
getSiblingFileName(file, sibling) ==
    SubSeq(file, 1, LastIndexOf(file, "/")) \o <<sibling>>

\* paths the working tree may report, in the order the status lists them
RepoPaths(pf) ==
    << LockFileNameOf(pf),
       getSiblingFileName(pf, "vendor") \o <<"/", "autoload.php">>,
       getSiblingFileName(pf, "vendor") \o <<"/", "acme", "/", "widget.php">>,
       getSiblingFileName(pf, "src") \o <<"/", "index.php">> >>

RECURSIVE SelectPaths(_, _, _)
SelectPaths(paths, f, kind) ==
    IF paths = <<>> THEN <<>>
    ELSE SelectPaths(SubSeq(paths, 1, Len(paths) - 1), f, kind)
         \o (IF f[Len(paths)] = kind THEN <<paths[Len(paths)]>> ELSE <<>>)

\* a status: each path clean, modified, not_added or deleted
StatusKinds == {"clean", "modified", "not_added", "deleted"}
Statuses ==
    { f \in [1..4 -> StatusKinds] :
        Cardinality({i \in 1..4 : f[i] # "clean"}) <= MaxChanged }

StatusOf(pf, f) ==
    [ modified  |-> SelectPaths(RepoPaths(pf), f, "modified"),
      not_added |-> SelectPaths(RepoPaths(pf), f, "not_added"),
      deleted   |-> SelectPaths(RepoPaths(pf), f, "deleted") ]

NoStatus == [modified |-> <<>>, not_added |-> <<>>, deleted |-> <<>>]

\* contents of composer.lock on disk before the run
LockContents == {"absent", "empty", "badjson", "badschema", "ok"}
\* new manifest content handed to the run
ManifestContents == {"badjson", "badschema", "ok"}

\* run configuration and update request
UpdatedDepsChoices ==
    { <<>>,
      <<[depName |-> "acme/widget", isString |-> TRUE]>>,
      <<[depName |-> "my pkg", isString |-> TRUE],
        [depName |-> "", isString |-> FALSE]>> }
Configs ==
    [ isLockFileMaintenance : BOOLEAN, ignoreScripts : BOOLEAN ]

\* shlex quote: names made only of safe characters are left alone, others
\* are wrapped in single quotes
SafeNames == {"acme/widget"}
quote(dep) == IF dep \in SafeNames THEN dep ELSE "'" \o dep \o "'"

RECURSIVE QuotedNames(_)
QuotedNames(deps) ==
    IF deps = <<>> THEN <<>>
    ELSE (IF Head(deps).isString THEN <<quote(Head(deps).depName)>> ELSE <<>>)
         \o QuotedNames(Tail(deps))

\* common arguments derived from the run configuration
getComposerArguments(config) ==
    <<"--no-ansi", "--no-interaction">>
    \o (IF config.ignoreScripts
        THEN <<"--no-scripts", "--no-autoloader", "--no-plugins">>
        ELSE <<>>)

StashCmd == <<"git stash -- composer.json">>
PopCmd == <<"git stash pop || true">>
InstallCmd(config) == <<"composer", "install">> \o getComposerArguments(config)
UpdateCmd(config, deps) ==
    <<"composer", "update">>
    \o (IF config.isLockFileMaintenance
        THEN <<>>
        ELSE QuotedNames(deps) \o <<"--with-dependencies">>)
    \o getComposerArguments(config)

\* mutant: the update command is pushed before the pre-update commands
BuildCommands_UpdateFirst(needsInstall, config, deps) ==
    <<UpdateCmd(config, deps)>>
    \o (IF needsInstall
        THEN <<StashCmd, InstallCmd(config), PopCmd>>
        ELSE <<>>)

BuildCommands(needsInstall, config, deps) ==
    (IF needsInstall
     THEN <<StashCmd, InstallCmd(config), PopCmd>>
     ELSE <<>>)
    \o <<UpdateCmd(config, deps)>>

\* results
Addition(p) == [kind |-> "addition", path |-> p, stderr |-> <<>>]
Deletion(p) == [kind |-> "deletion", path |-> p, stderr |-> <<>>]
ArtifactError(lockFile, message) ==
    [kind |-> "artifactError", path |-> lockFile, stderr |-> message]

\* mutant: the lock file is reported whenever anything was modified
LockModified_AnyChange(status, lockFile) == status.modified # <<>>

\* status.modified.includes(lockFileName)
LockModified(status, lockFile) ==
    \E i \in 1..Len(status.modified) : status.modified[i] = lockFile

\* mutant: the error is appended to the results gathered so far
CatchResult_KeepPartial(partial, lockFile, message) ==
    partial \o <<ArtifactError(lockFile, message)>>

\* the list the catch block returns
CatchResult(partial, lockFile, message) ==
    <<ArtifactError(lockFile, message)>>

\* what the catch block does with an error message
CatchKind(message) ==
    IF message = TEMPORARY_ERROR THEN "rethrow"
    ELSE IF Includes(message, UnresolvableText) THEN "artifactError"
    ELSE IF Includes(message, DiskFullText) THEN "diskfull"
    ELSE "artifactError"

VARIABLES
    pc,                 \* position of updateArtifacts
    packageFileName,    \* the manifest being updated
    fsLock,             \* composer.lock content on disk before the run
    needsInstall,       \* requireComposerDependencyInstallation(lock)
    newPackageFileContent,
    config, updatedDeps,
    fsVendor,           \* the vendor directory exists on disk
    fsVendorAtStart,    \* it existed when the run started
    fsManifestWritten,  \* writeLocalFile(packageFileName, ...) has completed
    commitVendorFiles,
    commands,           \* the plan handed to exec
    execLog,            \* commands exec has run so far
    status,
    todo,               \* paths the loop still has to visit
    res,                \* result list being built / returned
    ret,                \* "pending", "null", "list" or "throw"
    thrown,             \* message of the exception that reached the caller
    err,                \* message raised by the failing step
    failedAt            \* the step that raised, "" if none

lockFileName == LockFileNameOf(packageFileName)
vendorDir == getSiblingFileName(packageFileName, "vendor")

synthVars == << pc, packageFileName, fsLock, needsInstall, newPackageFileContent, config,
                updatedDeps, fsVendor, fsVendorAtStart, fsManifestWritten,
                commitVendorFiles, commands, execLog, status, todo, res, ret,
                thrown, err, failedAt >>

SynthInit ==
    /\ pc = "readLock"
    /\ packageFileName \in PackageFileNames
    /\ fsLock \in LockContents
    /\ needsInstall \in BOOLEAN
    /\ (fsLock # "ok" => needsInstall = FALSE)
    /\ newPackageFileContent \in ManifestContents
    /\ config \in Configs
    /\ updatedDeps \in UpdatedDepsChoices
    /\ fsVendor \in BOOLEAN
    /\ fsVendorAtStart = fsVendor
    /\ fsManifestWritten = FALSE
    /\ commitVendorFiles = FALSE
    /\ commands = <<>>
    /\ execLog = <<>>
    /\ status = NoStatus
    /\ todo = <<>>
    /\ res = <<>>
    /\ ret = "pending"
    /\ thrown = <<>>
    /\ err = <<>>
    /\ failedAt = ""

\* return null
ReturnNull ==
    /\ pc' = "done"
    /\ ret' = "null"
    /\ res' = <<>>

\* an exception raised outside the try block reaches the caller unchanged
Escape(step, message) ==
    /\ pc' = "done"
    /\ ret' = "throw"
    /\ thrown' = message
    /\ res' = <<>>
    /\ err' = message
    /\ failedAt' = step

\* an exception raised inside the try block: the catch block
Catch(step, message) ==
    /\ pc' = "done"
    /\ err' = message
    /\ failedAt' = step
    /\ LET k == CatchKind(message) IN
       CASE k = "rethrow" ->
              ret' = "throw" /\ thrown' = message /\ res' = <<>>
         [] k = "diskfull" ->
              ret' = "throw" /\ thrown' = SYSTEM_INSUFFICIENT_DISK_SPACE
              /\ res' = <<>>
         [] OTHER ->
              ret' = "list" /\ thrown' = thrown
              /\ res' = CatchResult(res, lockFileName, message)

\* line 96-100
ReadLock ==
    /\ pc = "readLock"
    /\ \/ /\ fsLock \in {"absent", "empty"}
          /\ ReturnNull
          /\ UNCHANGED <<thrown, err, failedAt>>
       \/ /\ fsLock \notin {"absent", "empty"}
          /\ pc' = "pathExists"
          /\ UNCHANGED <<ret, res, thrown, err, failedAt>>
       \/ \E m \in Messages : Escape("readLock", m)
    /\ UNCHANGED << packageFileName, fsLock, needsInstall, newPackageFileContent, config,
                    updatedDeps, fsVendor, fsVendorAtStart, fsManifestWritten,
                    commitVendorFiles, commands, execLog, status, todo >>

\* line 102-103
LocalPathExists ==
    /\ pc = "pathExists"
    /\ \/ /\ commitVendorFiles' = fsVendor
          /\ pc' = "ensureDir"
          /\ UNCHANGED <<ret, res, thrown, err, failedAt>>
       \/ /\ \E m \in Messages : Escape("pathExists", m)
          /\ UNCHANGED commitVendorFiles
    /\ UNCHANGED << packageFileName, fsLock, needsInstall, newPackageFileContent, config,
                    updatedDeps, fsVendor, fsVendorAtStart, fsManifestWritten,
                    commands, execLog, status, todo >>

\* mutant: the existence check is taken after the directory was created
EnsureLocalDir_CheckAfter ==
    /\ pc = "ensureDir"
    /\ \/ /\ fsVendor' = TRUE
          /\ commitVendorFiles' = fsVendor'
          /\ pc' = "write"
          /\ UNCHANGED <<ret, res, thrown, err, failedAt>>
       \/ /\ \E m \in Messages : Escape("ensureDir", m)
          /\ UNCHANGED <<fsVendor, commitVendorFiles>>
    /\ UNCHANGED << packageFileName, fsLock, needsInstall, newPackageFileContent, config,
                    updatedDeps, fsVendorAtStart, fsManifestWritten,
                    commands, execLog, status, todo >>

\* line 104
EnsureLocalDir ==
    /\ pc = "ensureDir"
    /\ \/ /\ fsVendor' = TRUE
          /\ pc' = "write"
          /\ UNCHANGED <<ret, res, thrown, err, failedAt>>
       \/ /\ \E m \in Messages : Escape("ensureDir", m)
          /\ UNCHANGED fsVendor
    /\ UNCHANGED << packageFileName, fsLock, needsInstall, newPackageFileContent, config,
                    updatedDeps, fsVendorAtStart, fsManifestWritten,
                    commitVendorFiles, commands, execLog, status, todo >>

\* line 106
WriteManifest ==
    /\ pc = "write"
    /\ \/ /\ fsManifestWritten' = TRUE
          /\ pc' = "parseLock"
          /\ UNCHANGED <<ret, res, thrown, err, failedAt>>
       \/ /\ \E m \in Messages : Catch("write", m)
          /\ UNCHANGED fsManifestWritten
    /\ UNCHANGED << packageFileName, fsLock, needsInstall, newPackageFileContent, config,
                    updatedDeps, fsVendor, fsVendorAtStart,
                    commitVendorFiles, commands, execLog, status, todo >>

\* line 108-118
ParseLock ==
    /\ pc = "parseLock"
    /\ \/ /\ fsLock = "badjson"
          /\ Catch("parseLock", JsonSyntaxMessage)
       \/ /\ fsLock = "badschema"
          /\ ReturnNull
          /\ UNCHANGED <<thrown, err, failedAt>>
       \/ /\ fsLock = "ok"
          /\ pc' = "parseManifest"
          /\ UNCHANGED <<ret, res, thrown, err, failedAt>>
    /\ UNCHANGED << packageFileName, fsLock, needsInstall, newPackageFileContent, config,
                    updatedDeps, fsVendor, fsVendorAtStart, fsManifestWritten,
                    commitVendorFiles, commands, execLog, status, todo >>

\* line 120-130
ParseManifest ==
    /\ pc = "parseManifest"
    /\ \/ /\ newPackageFileContent = "badjson"
          /\ Catch("parseManifest", JsonSyntaxMessage)
       \/ /\ newPackageFileContent = "badschema"
          /\ ReturnNull
          /\ UNCHANGED <<thrown, err, failedAt>>
       \/ /\ newPackageFileContent = "ok"
          /\ pc' = "plan"
          /\ UNCHANGED <<ret, res, thrown, err, failedAt>>
    /\ UNCHANGED << packageFileName, fsLock, needsInstall, newPackageFileContent, config,
                    updatedDeps, fsVendor, fsVendorAtStart, fsManifestWritten,
                    commitVendorFiles, commands, execLog, status, todo >>

\* line 132-187: the environment (ensureCacheDir may raise) and the plan
Plan ==
    /\ pc = "plan"
    /\ \/ /\ commands' = BuildCommands(needsInstall, config, updatedDeps)
          /\ pc' = "exec"
          /\ UNCHANGED <<ret, res, thrown, err, failedAt>>
       \/ /\ \E m \in Messages : Catch("ensureCacheDir", m)
          /\ UNCHANGED commands
    /\ UNCHANGED << packageFileName, fsLock, needsInstall, newPackageFileContent, config,
                    updatedDeps, fsVendor, fsVendorAtStart, fsManifestWritten,
                    commitVendorFiles, execLog, status, todo >>

\* line 189: exec runs the commands one after the other and stops at the
\* first that fails
ExecCommand ==
    /\ pc = "exec"
    /\ Len(execLog) < Len(commands)
    /\ \/ /\ execLog' = Append(execLog, commands[Len(execLog) + 1])
          /\ UNCHANGED <<pc, ret, res, thrown, err, failedAt>>
       \/ /\ \E m \in Messages : Catch("exec", m)
          /\ UNCHANGED execLog
    /\ UNCHANGED << packageFileName, fsLock, needsInstall, newPackageFileContent, config,
                    updatedDeps, fsVendor, fsVendorAtStart, fsManifestWritten,
                    commitVendorFiles, commands, status, todo >>

\* line 190-193
GetRepoStatus ==
    /\ pc = "exec"
    /\ Len(execLog) = Len(commands)
    /\ \/ \E f \in Statuses :
            /\ status' = StatusOf(packageFileName, f)
            /\ IF LockModified(status', lockFileName)
               THEN /\ pc' = "readNewLock"
                    /\ UNCHANGED <<ret, res>>
               ELSE ReturnNull
            /\ UNCHANGED <<thrown, err, failedAt>>
       \/ /\ \E m \in Messages : Catch("getRepoStatus", m)
          /\ UNCHANGED status
    /\ UNCHANGED << packageFileName, fsLock, needsInstall, newPackageFileContent, config,
                    updatedDeps, fsVendor, fsVendorAtStart, fsManifestWritten,
                    commitVendorFiles, commands, execLog, todo >>

\* line 195-209
ReadNewLock ==
    /\ pc = "readNewLock"
    /\ \/ /\ res' = <<Addition(lockFileName)>>
          /\ IF ~commitVendorFiles
             THEN pc' = "done" /\ ret' = "list" /\ todo' = <<>>
             ELSE /\ pc' = "additions"
                  /\ ret' = ret
                  /\ todo' = status.modified \o status.not_added
          /\ UNCHANGED <<thrown, err, failedAt>>
       \/ /\ \E m \in Messages : Catch("readNewLock", m)
          /\ UNCHANGED todo
    /\ UNCHANGED << packageFileName, fsLock, needsInstall, newPackageFileContent, config,
                    updatedDeps, fsVendor, fsVendorAtStart, fsManifestWritten,
                    commitVendorFiles, commands, execLog, status >>

\* line 210-220: one iteration
VendorAddition ==
    /\ pc = "additions"
    /\ todo # <<>>
    /\ \/ /\ todo' = Tail(todo)
          /\ res' = IF StartsWith(Head(todo), vendorDir)
                    THEN Append(res, Addition(Head(todo)))
                    ELSE res
          /\ UNCHANGED <<pc, ret, thrown, err, failedAt>>
       \/ /\ StartsWith(Head(todo), vendorDir)
          /\ \E m \in Messages : Catch("readVendorFile", m)
          /\ UNCHANGED todo
    /\ UNCHANGED << packageFileName, fsLock, needsInstall, newPackageFileContent, config,
                    updatedDeps, fsVendor, fsVendorAtStart, fsManifestWritten,
                    commitVendorFiles, commands, execLog, status >>

RECURSIVE Deletions(_)
Deletions(paths) ==
    IF paths = <<>> THEN <<>>
    ELSE <<Deletion(Head(paths))>> \o Deletions(Tail(paths))

\* line 221-230
VendorDeletions ==
    /\ pc = "additions"
    /\ todo = <<>>
    /\ res' = res \o Deletions(status.deleted)
    /\ pc' = "done"
    /\ ret' = "list"
    /\ UNCHANGED << packageFileName, fsLock, needsInstall, newPackageFileContent, config,
                    updatedDeps, fsVendor, fsVendorAtStart, fsManifestWritten,
                    commitVendorFiles, commands, execLog, status, todo,
                    thrown, err, failedAt >>

\* =========================================================================
\*             EXTRACTION: parseRepositories / extractPackageFile
\* =========================================================================

\* the suffix the regular expression /(\/packages\.json)$/ matches
PackagesJsonSuffix ==
    <<"/", "p", "a", "c", "k", "a", "g", "e", "s", ".", "j", "s", "o", "n">>

\* url.replace(regEx(/(\/packages\.json)$/), ''): one match, at the end
transformRegUrl(url) ==
    IF EndsWith(url, PackagesJsonSuffix)
    THEN SubSeq(url, 1, Len(url) - Len(PackagesJsonSuffix))
    ELSE url

PackagistUrl ==
    <<"h", "t", "t", "p", "s", ":", "/", "/", "p", "a", "c", "k", "a", "g",
      "i", "s", "t", ".", "o", "r", "g">>

\* registry URLs a manifest may declare
BaseUrl == <<"h", "t", "t", "p", "s", ":", "/", "/", "r", ".", "i", "o">>
Urls ==
    { BaseUrl,
      BaseUrl \o PackagesJsonSuffix,
      BaseUrl \o PackagesJsonSuffix \o PackagesJsonSuffix }
GitUrl == <<"g", "i", "t", "@", "h", ":", "w">>

\* dependency names, as token sequences
Widget == <<"acme", "/", "widget">>
Other == <<"acme", "/", "other">>
Monolog == <<"monolog">>
Php == <<"php">>
Undefined == <<"undefined">>

\* a repository declaration: objKey is its key when the block is a mapping
Repo(type, objKey, hasName, hasUrl, url, pkFalse, pkOrgFalse) ==
    [ isObject |-> TRUE, type |-> type, objKey |-> objKey,
      hasName |-> hasName, hasUrl |-> hasUrl, url |-> url,
      packagistFalse |-> pkFalse, packagistOrgFalse |-> pkOrgFalse ]

\* the value false under a key
FalseValue(objKey) ==
    [ isObject |-> FALSE, type |-> "", objKey |-> objKey,
      hasName |-> FALSE, hasUrl |-> FALSE, url |-> <<>>,
      packagistFalse |-> FALSE, packagistOrgFalse |-> FALSE ]

RepoEntries ==
    { Repo("composer", <<"private">>, FALSE, TRUE, u, FALSE, FALSE) : u \in Urls }
    \cup { Repo("composer", <<"broken">>, FALSE, FALSE, <<>>, FALSE, FALSE) }
    \cup { Repo(t, Widget, TRUE, TRUE, GitUrl, FALSE, FALSE) :
             t \in {"vcs", "git", "path"} }
    \cup { Repo("package", <<"pkg">>, FALSE, FALSE, <<>>, FALSE, FALSE),
           Repo("composer", <<"only">>, FALSE, TRUE, BaseUrl, TRUE, FALSE),
           Repo("", <<"flag">>, FALSE, FALSE, <<>>, FALSE, TRUE),
           FalseValue(<<"packagist">>),
           FalseValue(<<"packagist.org">>) }

RepoBlocks ==
    UNION { [1..n -> RepoEntries] : n \in 0..MaxRepos }

\* the name an entry is filed under: repo.name in a sequence, the key in a
\* mapping; a missing name becomes the property key "undefined"
EntryName(isArray, repo) ==
    IF isArray
    THEN (IF repo.hasName THEN repo.objKey ELSE Undefined)
    ELSE repo.objKey

\* the key Object.entries gives: the index in a sequence, the key in a mapping
EntryKey(isArray, repo, i) ==
    IF isArray THEN <<"#", i>> ELSE repo.objKey

EmptyMap == [n \in {} |-> n]

MapPut(map, key, val) ==
    [n \in (DOMAIN map) \cup {key} |-> IF n = key THEN val ELSE map[n]]

\* accumulator state of parseRepositories
RepoState(repositories, registryUrls, packagist, threw) ==
    [ repositories |-> repositories, registryUrls |-> registryUrls,
      packagist |-> packagist, threw |-> threw ]

\* line 42-68: the forEach callback on one entry
ParseEntry(st, isArray, repo, i) ==
    IF repo.isObject
    THEN
      LET afterSwitch ==
            CASE repo.type \in {"vcs", "git", "path"} ->
                   [st EXCEPT !.repositories =
                      MapPut(st.repositories, EntryName(isArray, repo), repo)]
              [] repo.type = "composer" ->
                   IF repo.hasUrl
                   THEN [st EXCEPT !.registryUrls =
                           Append(st.registryUrls, transformRegUrl(repo.url))]
                   ELSE [st EXCEPT !.threw = TRUE]
              [] OTHER -> st
      IN IF afterSwitch.threw THEN afterSwitch
         ELSE IF repo.packagistFalse \/ repo.packagistOrgFalse
         THEN [afterSwitch EXCEPT !.packagist = FALSE]
         ELSE afterSwitch
    ELSE
      IF EntryKey(isArray, repo, i) \in {<<"packagist">>, <<"packagist.org">>}
      THEN [st EXCEPT !.packagist = FALSE]
      ELSE st

RECURSIVE ParseEntries(_, _, _, _)
ParseEntries(st, isArray, block, i) ==
    IF i > Len(block) \/ st.threw THEN st
    ELSE ParseEntries(ParseEntry(st, isArray, block[i], i), isArray, block, i + 1)

\* line 35-80: the accumulators after parseRepositories
parseRepositories(isArray, block, repositories, registryUrls) ==
    LET st == ParseEntries(RepoState(repositories, registryUrls, TRUE, FALSE),
                           isArray, block, 1)
    IN IF st.threw THEN st
       ELSE IF st.packagist
       THEN [st EXCEPT !.registryUrls = Append(st.registryUrls, PackagistUrl)]
       ELSE st

\* version.trim()
RECURSIVE TrimLeft(_)
TrimLeft(s) ==
    IF s # <<>> /\ Head(s) = " " THEN TrimLeft(Tail(s)) ELSE s
RECURSIVE TrimRight(_)
TrimRight(s) ==
    IF s # <<>> /\ s[Len(s)] = " " THEN TrimRight(SubSeq(s, 1, Len(s) - 1)) ELSE s
Trim(s) == TrimRight(TrimLeft(s))

\* lockedDep.version.replace(regEx(/^v/i), '')
StripLeadingV(v) ==
    IF v # <<>> /\ Head(v) \in {"v", "V"} THEN Tail(v) ELSE v

Req(name, version, isString) ==
    [depName |-> name, version |-> version, isString |-> isString]

RequireChoices ==
    { <<>>,
      <<Req(Widget, <<"^", "2", ".", "0">>, TRUE)>>,
      <<Req(Php, <<">=", "8">>, TRUE),
        Req(Widget, <<" ", "^", "2", ".", "0", " ">>, TRUE),
        Req(Other, <<"*">>, TRUE)>>,
      <<Req(Monolog, <<"1">>, TRUE), Req(Other, <<"*">>, TRUE)>>,
      <<Req(Widget, <<>>, FALSE)>> }
RequireDevChoices ==
    { <<>>, <<Req(Other, <<"~", "1">>, TRUE)>> }

Locked(name, version, isVersion) ==
    [name |-> name, version |-> version, isVersion |-> isVersion]

\* composer.lock as read by extraction
LockChoices ==
    { [content |-> "absent", packages |-> <<>>],
      [content |-> "badjson", packages |-> <<>>],
      [content |-> "ok", packages |-> <<Locked(Other, <<"1">>, TRUE)>>],
      [content |-> "ok",
       packages |-> <<Locked(Widget, <<"v", "1", ".", "2", ".", "3">>, TRUE),
                     Locked(Widget, <<"9">>, TRUE)>>],
      [content |-> "ok",
       packages |-> <<Locked(Widget, <<"dev-main">>, FALSE)>>] }

\* lockParsed[lockField]?.find((item) => item.name === dep.depName)
RECURSIVE FindLocked(_, _)
FindLocked(packages, name) ==
    IF packages = <<>> THEN <<>>
    ELSE IF Head(packages).name = name THEN <<Head(packages)>>
    ELSE FindLocked(Tail(packages), name)

Dep(depType, depName, currentValue) ==
    [ depType |-> depType, depName |-> depName, currentValue |-> currentValue,
      datasource |-> "", packageName |-> <<>>, extractVersion |-> "",
      skipReason |-> "", lockedVersion |-> <<>>,
      hasRegistryUrls |-> FALSE, registryUrls |-> <<>> ]

\* line 182-189
AttachRegistryUrls(dep, repositories, registryUrls) ==
    IF /\ dep.skipReason = ""
       /\ (dep.depName \notin DOMAIN repositories
            \/ repositories[dep.depName].type = "composer")
       /\ Len(registryUrls) # 0
    THEN [dep EXCEPT !.hasRegistryUrls = TRUE, !.registryUrls = registryUrls]
    ELSE dep

\* line 125-191: the record pushed for one declared dependency
ExtractDep(depType, req, repositories, registryUrls, lock) ==
    LET base == Dep(depType, req.depName, Trim(req.version)) IN
    IF req.depName = Php
    THEN [base EXCEPT !.datasource = "github-tags",
                      !.packageName = <<"php", "/", "php-src">>,
                      !.extractVersion = "^php-(?<version>.*)$"]
    ELSE IF req.depName \in DOMAIN repositories
            /\ repositories[req.depName].type = "path"
    THEN [base EXCEPT !.skipReason = "path-dependency"]
    ELSE
      LET named == req.depName \in DOMAIN repositories
                   /\ repositories[req.depName].type \in {"vcs", "git"}
          d1 == IF named
                THEN [base EXCEPT !.datasource = "git-tags",
                                  !.packageName = repositories[req.depName].url]
                ELSE [base EXCEPT !.datasource = "packagist"]
          d2 == IF ~Includes(req.depName, "/")
                THEN [d1 EXCEPT !.skipReason = "unsupported"]
                ELSE d1
          found == IF lock.content = "ok" /\ depType = "require"
                   THEN FindLocked(lock.packages, req.depName)
                   ELSE <<>>
          d3 == IF found # <<>> /\ found[1].isVersion
                THEN [d2 EXCEPT !.lockedVersion = StripLeadingV(found[1].version)]
                ELSE d2
      IN AttachRegistryUrls(d3, repositories, registryUrls)

RECURSIVE ExtractGroup(_, _, _, _, _)
ExtractGroup(depType, reqs, repositories, registryUrls, lock) ==
    IF reqs = <<>> THEN <<>>
    ELSE <<ExtractDep(depType, Head(reqs), repositories, registryUrls, lock)>>
         \o ExtractGroup(depType, Tail(reqs), repositories, registryUrls, lock)

\* version.trim() raises on a constraint that is not a string
GroupThrows(reqs) == \E i \in 1..Len(reqs) : ~reqs[i].isString

VARIABLES
    epc,            \* position of extractPackageFile
    content,        \* "badjson" or "ok": the manifest text
    hasRepositories, repoIsArray, repoBlock,   \* composerJson.repositories
    require, requireDev,
    lock,           \* the lock file beside the manifest
    repositories,   \* named-repository map
    registryUrls,   \* registry URL list
    reposThrew,     \* parseRepositories caught a failure
    deps,
    eret            \* "pending", "null" or "result"

extractVars == << epc, content, hasRepositories, repoIsArray, repoBlock,
                  require, requireDev, lock, repositories, registryUrls,
                  reposThrew, deps, eret >>

ExtractInit ==
    /\ epc = "parse"
    /\ content \in {"badjson", "ok"}
    /\ hasRepositories \in BOOLEAN
    /\ repoIsArray \in BOOLEAN
    /\ repoBlock \in RepoBlocks
    /\ (~hasRepositories => repoIsArray = FALSE /\ repoBlock = <<>>)
    /\ require \in RequireChoices
    /\ requireDev \in RequireDevChoices
    /\ lock \in LockChoices
    /\ (content = "badjson" =>
          /\ ~hasRepositories
          /\ require = <<>> /\ requireDev = <<>>
          /\ lock.content = "absent")
    /\ repositories = EmptyMap
    /\ registryUrls = <<>>
    /\ reposThrew = FALSE
    /\ deps = <<>>
    /\ eret = "pending"

\* line 87-110
ParseContent ==
    /\ epc = "parse"
    /\ IF content = "badjson"
       THEN epc' = "done" /\ eret' = "null"
       ELSE epc' = "repositories" /\ eret' = eret
    /\ UNCHANGED << content, hasRepositories, repoIsArray, repoBlock, require,
                    requireDev, lock, repositories, registryUrls, reposThrew,
                    deps >>

\* mutant: the repositories block is processed even when the manifest has none
HandleRepositories_Always ==
    /\ epc = "repositories"
    /\ LET st == parseRepositories(repoIsArray, repoBlock,
                                  repositories, registryUrls)
       IN /\ repositories' = st.repositories
          /\ registryUrls' = st.registryUrls
          /\ reposThrew' = st.threw
    /\ epc' = "deps"
    /\ UNCHANGED << content, hasRepositories, repoIsArray, repoBlock, require,
                    requireDev, lock, deps, eret >>

\* line 112-115
HandleRepositories ==
    /\ epc = "repositories"
    /\ IF hasRepositories
       THEN LET st == parseRepositories(repoIsArray, repoBlock,
                                        repositories, registryUrls)
            IN /\ repositories' = st.repositories
               /\ registryUrls' = st.registryUrls
               /\ reposThrew' = st.threw
       ELSE UNCHANGED <<repositories, registryUrls, reposThrew>>
    /\ epc' = "deps"
    /\ UNCHANGED << content, hasRepositories, repoIsArray, repoBlock, require,
                    requireDev, lock, deps, eret >>

\* line 117-215
ExtractDeps ==
    /\ epc = "deps"
    /\ epc' = "done"
    /\ IF GroupThrows(require) \/ GroupThrows(requireDev)
       THEN /\ eret' = "null"
            /\ deps' = <<>>
       ELSE LET all == ExtractGroup("require", require, repositories,
                                    registryUrls, lock)
                       \o ExtractGroup("require-dev", requireDev, repositories,
                                       registryUrls, lock)
            IN /\ deps' = all
               /\ eret' = IF all = <<>> THEN "null" ELSE "result"
    /\ UNCHANGED << content, hasRepositories, repoIsArray, repoBlock, require,
                    requireDev, lock, repositories, registryUrls, reposThrew >>

\* =========================================================================
\*                             specifications
\* =========================================================================
vars == << synthVars, extractVars >>

\* extraction not running
ExtractIdle ==
    /\ epc = "idle"
    /\ content = "ok"
    /\ hasRepositories = FALSE
    /\ repoIsArray = FALSE
    /\ repoBlock = <<>>
    /\ require = <<>>
    /\ requireDev = <<>>
    /\ lock = [content |-> "absent", packages |-> <<>>]
    /\ repositories = EmptyMap
    /\ registryUrls = <<>>
    /\ reposThrew = FALSE
    /\ deps = <<>>
    /\ eret = "pending"

\* synthesis not running
SynthIdle ==
    /\ pc = "idle"
    /\ packageFileName = <<"composer", ".json">>
    /\ fsLock = "absent"
    /\ needsInstall = FALSE
    /\ newPackageFileContent = "ok"
    /\ config = [isLockFileMaintenance |-> FALSE, ignoreScripts |-> FALSE]
    /\ updatedDeps = <<>>
    /\ fsVendor = FALSE
    /\ fsVendorAtStart = FALSE
    /\ fsManifestWritten = FALSE
    /\ commitVendorFiles = FALSE
    /\ commands = <<>>
    /\ execLog = <<>>
    /\ status = NoStatus
    /\ todo = <<>>
    /\ res = <<>>
    /\ ret = "pending"
    /\ thrown = <<>>
    /\ err = <<>>
    /\ failedAt = ""

Init == SynthInit /\ ExtractIdle
Next ==
    \/ ReadLock /\ UNCHANGED extractVars
    \/ LocalPathExists /\ UNCHANGED extractVars
    \/ EnsureLocalDir /\ UNCHANGED extractVars
    \/ WriteManifest /\ UNCHANGED extractVars
    \/ ParseLock /\ UNCHANGED extractVars
    \/ ParseManifest /\ UNCHANGED extractVars
    \/ Plan /\ UNCHANGED extractVars
    \/ ExecCommand /\ UNCHANGED extractVars
    \/ GetRepoStatus /\ UNCHANGED extractVars
    \/ ReadNewLock /\ UNCHANGED extractVars
    \/ VendorAddition /\ UNCHANGED extractVars
    \/ VendorDeletions /\ UNCHANGED extractVars

\* one call of updateArtifacts
Spec == Init /\ [][Next]_vars

ExtractSpecInit == ExtractInit /\ SynthIdle
ExtractSpecNext ==
    \/ ParseContent /\ UNCHANGED synthVars
    \/ HandleRepositories /\ UNCHANGED synthVars
    \/ ExtractDeps /\ UNCHANGED synthVars

\* one call of extractPackageFile
ExtractSpec == ExtractSpecInit /\ [][ExtractSpecNext]_vars
\* =========================================================================
\*                               properties
\* =========================================================================

IsFileResult(r) == r.kind \in {"addition", "deletion"}
ReturnedFiles == ret = "list" /\ res # <<>> /\ res[1].kind # "artifactError"

\* C1: a returned list is made only of file additions/deletions, or is
\* exactly one ArtifactError; an error never shares a list with a file result.
C1_NoMixedResult ==
    ret = "list" =>
        \/ \A i \in 1..Len(res) : IsFileResult(res[i])
        \/ Len(res) = 1 /\ res[1].kind = "artifactError"

\* a vendor file read failed after the lock file addition was gathered, and
\* the call returned the error alone
C1_Witness ==
    /\ pc = "done"
    /\ failedAt = "readVendorFile"
    /\ ret = "list"
    /\ res = <<ArtifactError(lockFileName, err)>>

\* C2: a failure whose message is the transient sentinel, or carries the
\* disk-full text, always reaches the caller as an exception and is never
\* returned as an ArtifactError.
C2_TransientAndDiskFullPropagate ==
    (/\ pc = "done"
     /\ failedAt # ""
     /\ (err = TEMPORARY_ERROR \/ Includes(err, DiskFullText)))
    => ret = "throw"

\* the status was queried after the whole plan ran without raising
StatusQueried ==
    /\ commands # <<>>
    /\ execLog = commands
    /\ pc # "exec"
    /\ failedAt \notin {"exec", "getRepoStatus"}

\* C3: when the plan ran without raising and the status does not list the
\* lock file as modified, the call returns null: no addition, no deletion,
\* no ArtifactError, no exception.
C3_UnmodifiedLockReturnsNull ==
    (StatusQueried /\ ~Includes(status.modified, lockFileName))
    => /\ pc = "done"
       /\ ret = "null"
       /\ res = <<>>
       /\ thrown = <<>>

\* the vendor directory existed before the run, the status lists changed and
\* deleted paths under it but not the lock file, and the call returned null
C3_Witness ==
    /\ StatusQueried
    /\ fsVendorAtStart
    /\ ~Includes(status.modified, lockFileName)
    /\ \E i \in 1..Len(status.deleted) : StartsWith(status.deleted[i], vendorDir)
    /\ \E i \in 1..Len(status.modified) : StartsWith(status.modified[i], vendorDir)
    /\ ret = "null"

\* C4: in a successful result set every entry after the lock file addition
\* has a path that starts with the vendor directory path.
C4_VendorEntriesUnderVendorDir ==
    (pc = "done" /\ ReturnedFiles)
    => \A i \in 2..Len(res) : StartsWith(res[i].path, vendorDir)

\* C5: vendor entries appear only if the vendor directory existed before the
\* run started; when it did not, a successful result is exactly the lock file
\* addition.
C5_VendorEntriesOnlyIfExistedBefore ==
    (ReturnedFiles /\ ~fsVendorAtStart)
    => res = <<Addition(lockFileName)>>

\* the directory did not exist before the run, the run created it, the status
\* lists new files under it, and only the lock file addition was returned
C5_Witness ==
    /\ pc = "done"
    /\ ReturnedFiles
    /\ ~fsVendorAtStart
    /\ fsVendor
    /\ \E i \in 1..Len(status.not_added) :
          StartsWith(status.not_added[i], vendorDir)
    /\ res = <<Addition(lockFileName)>>

\* the lock or the new manifest content is not valid JSON or fails the schema
StructuralParseFailure ==
    \/ fsLock \in {"badjson", "badschema"}
    \/ newPackageFileContent \in {"badjson", "badschema"}

\* C6: when the lock or the new manifest content is a structural parse
\* failure and no collaborator raised, the call returns null, with no
\* ArtifactError, no exception and no command run.
C6_ParseFailureReturnsNull ==
    (/\ pc = "done"
     /\ StructuralParseFailure
     /\ failedAt \in {"", "parseLock", "parseManifest"})
    => /\ ret = "null"
       /\ execLog = <<>>

IsUpdateCommand(c) == StartsWith(c, <<"composer", "update">>)

\* C7: the plan ends with the single update command; when install is
\* required it is preceded by exactly stash, install with the update's common
\* arguments, pop; otherwise the plan is the update alone; commands run in
\* plan order and only after the manifest was written.
C7_PlanOrder ==
    /\ (commands # <<>> =>
          /\ IsUpdateCommand(commands[Len(commands)])
          /\ EndsWith(commands[Len(commands)], getComposerArguments(config))
          /\ \A i \in 1..(Len(commands) - 1) : ~IsUpdateCommand(commands[i])
          /\ IF needsInstall
             THEN /\ Len(commands) = 4
                  /\ commands[1] = <<"git stash -- composer.json">>
                  /\ commands[2] = <<"composer", "install">>
                                   \o getComposerArguments(config)
                  /\ commands[3] = <<"git stash pop || true">>
             ELSE Len(commands) = 1)
    /\ Len(execLog) <= Len(commands)
    /\ execLog = SubSeq(commands, 1, Len(execLog))
    /\ (execLog # <<>> => fsManifestWritten)

\* a plan with the install pre-step ran to its end
C7_Witness ==
    /\ needsInstall
    /\ Len(commands) = 4
    /\ execLog = commands
    /\ pc = "done"
    /\ ReturnedFiles

DefaultResolved(d) == d.datasource = "packagist" /\ d.skipReason = ""

EntryDisablesDefault(isArray, repo) ==
    IF repo.isObject
    THEN repo.packagistFalse \/ repo.packagistOrgFalse
    ELSE ~isArray /\ repo.objKey \in {<<"packagist">>, <<"packagist.org">>}

BlockDisablesDefault ==
    \E i \in 1..Len(repoBlock) : EntryDisablesDefault(repoIsArray, repoBlock[i])

C10_FailureLeavesAccumulatorsEmpty ==
    (epc \in {"deps", "done"} /\ reposThrew)
    => /\ repositories = EmptyMap
       /\ registryUrls = <<>>
====
